---- MODULE Spec2Model ----
(***************************************************************************)
(* License activation endpoint (`action` of the /activate route) and the   *)
(* registry store it reads and writes through Prisma.                      *)
(*                                                                         *)
(* Each request is a process. A step of a request is one awaited store     *)
(* operation together with the local code that follows it up to the next   *)
(* await. The store operations of different requests interleave freely:    *)
(* the handler opens no transaction and takes no lock.                     *)
(*                                                                         *)
(* Strings that the code inspects (the domain) are sequences of tokens, so *)
(* that endsWith is computed and not assumed. Both copies of the handler   *)
(* (src/unnamed/part_000 and src/app/routes/app.license.jsx:261-364) are   *)
(* the same code; line numbers below are those of src/unnamed/part_000.    *)
(***************************************************************************)
EXTENDS Integers, Sequences, FiniteSets, TLC

(* ------------------------------ bounds -------------------------------- *)

\* number of HTTP requests the model lets arrive
NumRequests == 3

Requests == 1..NumRequests

(* ---------------------------- input domains --------------------------- *)

\* the literal of line 39, as tokens
Suffix == <<".", "myshopify", ".", "com">>

DomainA == <<"shop-a">> \o Suffix
DomainB == <<"shop-b">> \o Suffix
DomainBad == <<"example", ".", "com">>
NoDomain == <<>>

\* values of the form field "domain" (the empty string stands for an
\* absent or empty field: both are falsy in line 28)
DomainInputs == {NoDomain, DomainA, DomainB, DomainBad}

\* License rows that exist (created by bulk generation, isActive = false)
IssuedKeys == {"TL-1"}

\* values of the form field "licenseKey": empty, issued, never issued
KeyInputs == {"", "TL-1", "TL-0"}

NoTheme == "none"
ThemeInputs == {NoTheme, "theme-1"}

\* methods a route action is invoked for; line 19 admits POST only
MethodInputs == {"POST", "PUT"}

NoForm == [licenseKey |-> "", domain |-> NoDomain, themeId |-> NoTheme]

\* the forms a POST may carry: an empty, an issued and an unknown key with
\* each kind of domain; the optional themeId is varied on one valid form
FormInputs ==
    {f \in [licenseKey : KeyInputs, domain : DomainInputs, themeId : ThemeInputs] :
        /\ f.themeId # NoTheme => (f.licenseKey \in IssuedKeys /\ f.domain = DomainA)
        /\ f.licenseKey = "" => f.domain \in {NoDomain, DomainBad}
        /\ f.domain = NoDomain => f.licenseKey \in {"", "TL-1"}}

\* absent timestamp
NoTime == 0

(* ------------------------------- state -------------------------------- *)

VARIABLES
    license,            \* License table: issued key -> row
    activations,        \* LicenseActivation table: set of rows
    pc,                 \* per request: the await it is suspended at
    req,                \* per request: method and form fields
    activationLocal,    \* per request: `activation`, the row upsert returned
    resp,               \* per request: the response returned
    clock               \* wall clock read by now() and new Date()

vars == <<license, activations, pc, req, activationLocal, resp, clock>>

NoReq == [method |-> "none", licenseKey |-> "", domain |-> NoDomain, themeId |-> NoTheme]
NoResp == [status |-> 0, success |-> "absent", error |-> "none",
           currentDomain |-> NoDomain, activatedAt |-> NoTime]
NoRow == [licenseKey |-> "", domain |-> NoDomain, themeId |-> NoTheme,
          isActive |-> FALSE, activatedAt |-> NoTime]

(* ---------------------------- pure helpers ---------------------------- *)

\* String.prototype.endsWith
EndsWith(s, suffix) ==
    /\ Len(s) >= Len(suffix)
    /\ SubSeq(s, Len(s) - Len(suffix) + 1, Len(s)) = suffix

\* json(body, {status}): the body fields and the HTTP status
Json(success, error, currentDomain, activatedAt, status) ==
    [status |-> status, success |-> success, error |-> error,
     currentDomain |-> currentDomain, activatedAt |-> activatedAt]

MethodNotAllowed == Json("absent", "method_not_allowed", NoDomain, NoTime, 405)
MissingFields == Json("false", "missing_fields", NoDomain, NoTime, 400)
InvalidDomain == Json("false", "invalid_domain", NoDomain, NoTime, 200)
InvalidKey == Json("false", "invalid_key", NoDomain, NoTime, 200)
AlreadyBound(d) == Json("false", "already_bound", d, NoTime, 200)
InternalError == Json("false", "internal", NoDomain, NoTime, 500)
Activated(at) == Json("true", "none", NoDomain, at, 200)

\* Validate with the suffix test made before the presence test
ValidateSuffixFirst(method, licenseKey, domain) ==
    IF method # "POST" THEN "method"
    ELSE IF ~EndsWith(domain, Suffix) THEN "domain"
    ELSE IF licenseKey = "" \/ domain = NoDomain THEN "missing"
    ELSE "ok"

\* the checks of lines 19-44, in the order the code makes them;
\* "ok" means the handler goes on to the store
Validate(method, licenseKey, domain) ==
    IF method # "POST" THEN "method"
    ELSE IF licenseKey = "" \/ domain = NoDomain THEN "missing"
    ELSE IF ~EndsWith(domain, Suffix) THEN "domain"
    ELSE "ok"

ValidationResponse(v) ==
    CASE v = "method" -> MethodNotAllowed
      [] v = "missing" -> MissingFields
      [] v = "domain" -> InvalidDomain

\* rows findFirst({licenseKey, isActive: true}) may return
ActiveRows(k) == {a \in activations : a.licenseKey = k /\ a.isActive}

\* the row with the compound unique key licenseKey_domain
RowsAt(k, d) == {a \in activations : a.licenseKey = k /\ a.domain = d}

\* columns of a new LicenseActivation row that `create` does not list:
\* themeId is absent, activatedAt is the time of insertion
ColumnDefaults(now) == [themeId |-> NoTheme, activatedAt |-> now]

\* CreateRow with isActive left out of `create` (the column then stays false)
CreateRowInactive(k, d, themeId, now) ==
    [licenseKey |-> k, domain |-> d, themeId |-> ColumnDefaults(now).themeId,
     isActive |-> FALSE, activatedAt |-> ColumnDefaults(now).activatedAt]

\* `create` branch of the upsert: licenseKey, domain and isActive are listed,
\* the themeId of the request is not
CreateRow(k, d, themeId, now) ==
    [licenseKey |-> k, domain |-> d, themeId |-> ColumnDefaults(now).themeId,
     isActive |-> TRUE, activatedAt |-> ColumnDefaults(now).activatedAt]

\* `update` branch of the upsert: only isActive is written
UpdateRow(row, themeId, now) ==
    [row EXCEPT !.isActive = TRUE]

\* LicenseData with the domain left out of `data`
LicenseDataNoDomain(row, d, now) ==
    [row EXCEPT !.isActive = TRUE, !.activatedAt = now]

\* `data` of license.update
LicenseData(row, d, now) ==
    [row EXCEPT !.domain = d, !.isActive = TRUE, !.activatedAt = now]

\* the conflict test of line 66
Conflicts(existing, d) == existing # NoRow /\ existing.domain # d

(* -------------------------------- Init -------------------------------- *)

\* a License row as bulk generation leaves it: unbound, inactive
NewLicense == [domain |-> NoDomain, isActive |-> FALSE, activatedAt |-> NoTime]

Init ==
    /\ license = [k \in IssuedKeys |-> NewLicense]
    /\ activations = {}
    /\ pc = [r \in Requests |-> "idle"]
    /\ req = [r \in Requests |-> NoReq]
    /\ activationLocal = [r \in Requests |-> NoRow]
    /\ resp = [r \in Requests |-> NoResp]
    /\ clock = 1

(* ------------------------------ actions ------------------------------- *)

Return(r, response) ==
    /\ resp' = [resp EXCEPT ![r] = response]
    /\ pc' = [pc EXCEPT ![r] = "done"]

Goto(r, label) ==
    /\ pc' = [pc EXCEPT ![r] = label]
    /\ UNCHANGED resp

\* lines 18-44: the request arrives; method, presence and suffix checks.
\* The form is parsed (line 24) only once the method check has passed, so a
\* request with another method carries no fields the handler ever sees.
Receive(r) ==
    /\ pc[r] = "idle"
    /\ \E m \in MethodInputs :
         \E f \in (IF m = "POST" THEN FormInputs ELSE {NoForm}) :
           /\ req' = [req EXCEPT ![r] =
                        [method |-> m, licenseKey |-> f.licenseKey,
                         domain |-> f.domain, themeId |-> f.themeId]]
           /\ LET v == Validate(m, f.licenseKey, f.domain) IN
                IF v = "ok" THEN Goto(r, "findLicense")
                ELSE Return(r, ValidationResponse(v))
    /\ UNCHANGED <<license, activations, activationLocal, clock>>

\* lines 47-56: license.findUnique
FindLicense(r) ==
    /\ pc[r] = "findLicense"
    /\ IF req[r].licenseKey \in DOMAIN license
         THEN Goto(r, "findActive")
         ELSE Return(r, InvalidKey)
    /\ UNCHANGED <<license, activations, req, activationLocal, clock>>

\* lines 59-71: licenseActivation.findFirst has no orderBy, so it returns
\* any one of the matching rows, or null when there is none
FindActive(r) ==
    /\ pc[r] = "findActive"
    /\ \E existing \in (IF ActiveRows(req[r].licenseKey) = {}
                          THEN {NoRow} ELSE ActiveRows(req[r].licenseKey)) :
         IF Conflicts(existing, req[r].domain)
           THEN Return(r, AlreadyBound(existing.domain))
           ELSE Goto(r, "upsert")
    /\ UNCHANGED <<license, activations, req, activationLocal, clock>>

\* lines 74-89: licenseActivation.upsert on (licenseKey, domain)
Upsert(r) ==
    /\ pc[r] = "upsert"
    /\ LET k == req[r].licenseKey
           d == req[r].domain
           old == RowsAt(k, d)
           new == IF old = {}
                    THEN CreateRow(k, d, req[r].themeId, clock)
                    ELSE UpdateRow(CHOOSE a \in old : TRUE, req[r].themeId, clock)
       IN /\ activations' = (activations \ old) \cup {new}
          /\ activationLocal' = [activationLocal EXCEPT ![r] = new]
    /\ clock' = clock + 1
    /\ Goto(r, "update")
    /\ UNCHANGED <<license, req>>

\* lines 92-109: license.update, then the success response
UpdateLicense(r) ==
    /\ pc[r] = "update"
    /\ license' = [license EXCEPT ![req[r].licenseKey] =
                     LicenseData(@, req[r].domain, clock)]
    /\ clock' = clock + 1
    /\ Return(r, Activated(activationLocal[r].activatedAt))
    /\ UNCHANGED <<activations, req, activationLocal>>

\* lines 111-120: an awaited store operation rejects; the catch block answers
StoreFault(r) ==
    /\ pc[r] \in {"findLicense", "findActive", "upsert", "update"}
    /\ Return(r, InternalError)
    /\ UNCHANGED <<license, activations, req, activationLocal, clock>>

Next ==
    \E r \in Requests :
        \/ Receive(r)
        \/ FindLicense(r)
        \/ FindActive(r)
        \/ Upsert(r)
        \/ UpdateLicense(r)
        \/ StoreFault(r)

Spec == Init /\ [][Next]_vars

(* ------------------------- shorthand for claims ----------------------- *)

Key(r) == req[r].licenseKey
Dom(r) == req[r].domain

\* r takes a step
Steps(r) == pc'[r] # pc[r]

\* r's step ends in the catch block
Faults(r) == Steps(r) /\ resp'[r].status = 500

\* no other request is between its first store read and its response
Quiet(r) == \A q \in Requests \ {r} : pc[q] \in {"idle", "done"}

\* a well-formed activation request for an issued key
ValidForIssued(r) ==
    /\ req[r].method = "POST"
    /\ Key(r) \in IssuedKeys
    /\ Dom(r) # NoDomain
    /\ EndsWith(Dom(r), Suffix)

BusinessFailures == {"missing_fields", "invalid_domain", "invalid_key", "already_bound"}

(* ------------------------------- claims ------------------------------- *)

\* C1: in every reachable state each licenseKey has at most one Activation
\* row with isActive = true.
C1_AtMostOneActive ==
    \A k \in IssuedKeys : Cardinality(ActiveRows(k)) <= 1

\* C2: when the Activate calls made for an issued, initially unbound key
\* carry pairwise distinct valid domains and all have answered (none with the
\* 500 response), exactly one answered success and every other one
\* AlreadyBoundElsewhere.
C2_ExactlyOneSuccess ==
    \A k \in IssuedKeys :
        LET calls == {r \in Requests : pc[r] # "idle" /\ ValidForIssued(r) /\ Key(r) = k}
        IN  (/\ Cardinality(calls) >= 2
             /\ \A r \in calls : pc[r] = "done" /\ resp[r].status # 500
             /\ \A r, q \in calls : r # q => Dom(r) # Dom(q))
            => /\ Cardinality({r \in calls : resp[r].success = "true"}) = 1
               /\ \A r \in calls :
                    resp[r].success # "true" => resp[r].error = "already_bound"

\* C3: in every state another request can observe, License.isActive is true
\* iff some Activation row of that key has isActive = true.
C3_LicenseActiveIffActivation ==
    \A k \in IssuedKeys : license[k].isActive <=> ActiveRows(k) # {}

\* C4: a request that ends with the 500 response has either both of its
\* writes in the store (Activation row active, License row bound to its
\* domain) or none of them (its upsert never resolved).
C4_FaultLeavesBothOrNeither ==
    [][\A r \in Requests :
         Faults(r) =>
            \/ activationLocal[r] = NoRow
            \/ /\ \E a \in RowsAt(Key(r), Dom(r)) : a.isActive
               /\ license[Key(r)].isActive
               /\ license[Key(r)].domain = Dom(r)]_vars

\* C5: when key K has an active Activation for domain A and a request for
\* (K, B), B # A, makes its active-binding lookup, the request fails with
\* AlreadyBoundElsewhere naming A and the store is left unchanged.
C5_ConflictRejected ==
    [][\A r \in Requests :
         (pc[r] = "findActive" /\ Steps(r) /\ ~Faults(r)) =>
            \A a \in ActiveRows(Key(r)) :
                a.domain # Dom(r) =>
                    /\ resp'[r] = AlreadyBound(a.domain)
                    /\ license' = license
                    /\ activations' = activations]_vars

\* C6: the upsert of a second Activate for a pair (key, domain) whose first
\* Activate succeeded, made with no other request in flight, leaves exactly
\* one active Activation row for the key and that row's activatedAt is the
\* time of this second call.
C6_ReactivationRefreshesTime ==
    [][\A r \in Requests :
         (/\ pc[r] = "upsert" /\ pc'[r] = "update"
          /\ Quiet(r)
          /\ \E a \in RowsAt(Key(r), Dom(r)) : a.isActive
          /\ license[Key(r)].isActive /\ license[Key(r)].domain = Dom(r))
         => /\ Cardinality(ActiveRows(Key(r))') = 1
            /\ \A a \in RowsAt(Key(r), Dom(r))' : a.activatedAt = clock]_vars

\* C7: a well-formed request for an issued key whose active-binding lookup
\* finds no active Activation is not rejected, and unless a store operation
\* throws it returns the success response with, at that moment, the License
\* row having isActive = true and domain equal to the requested domain.
C7_UnboundActivates ==
    [][\A r \in Requests :
         /\ (pc[r] = "idle" /\ Steps(r) /\ ValidForIssued(r)')
                => pc'[r] = "findLicense"
         /\ (pc[r] = "findLicense" /\ Steps(r) /\ ~Faults(r) /\ ValidForIssued(r))
                => pc'[r] = "findActive"
         /\ (pc[r] = "findActive" /\ Steps(r) /\ ~Faults(r) /\ ActiveRows(Key(r)) = {})
                => pc'[r] = "upsert"
         /\ (pc[r] = "upsert" /\ Steps(r) /\ ~Faults(r))
                => pc'[r] = "update"
         /\ (pc[r] = "update" /\ Steps(r) /\ ~Faults(r))
                => /\ pc'[r] = "done"
                   /\ resp'[r].success = "true"
                   /\ resp'[r].status = 200
                   /\ license'[Key(r)].isActive
                   /\ license'[Key(r)].domain = Dom(r)]_vars

C7_Witness ==
    \E r \in Requests :
        /\ pc[r] = "done"
        /\ ValidForIssued(r)
        /\ resp[r].success = "true"
        /\ license[Key(r)].isActive
        /\ license[Key(r)].domain = Dom(r)

\* C8: the preconditions are checked in the order missing fields, domain
\* suffix, key lookup, active-binding conflict and the first failure is the
\* one reported; a failure of these kinds is answered by a request that has
\* written nothing, in a step that writes nothing.
C8_ChecksInOrder ==
    [][/\ \A r \in Requests :
            /\ (pc[r] = "idle" /\ Steps(r) /\ req'[r].method = "POST") =>
                 IF req'[r].licenseKey = "" \/ req'[r].domain = NoDomain
                   THEN resp'[r] = MissingFields
                 ELSE IF ~EndsWith(req'[r].domain, Suffix)
                   THEN resp'[r] = InvalidDomain
                 ELSE pc'[r] = "findLicense"
            /\ (pc[r] = "findLicense" /\ Steps(r) /\ ~Faults(r)) =>
                 IF Key(r) \notin IssuedKeys
                   THEN resp'[r] = InvalidKey
                 ELSE pc'[r] = "findActive"
            /\ (pc[r] = "findActive" /\ Steps(r) /\ ~Faults(r)) =>
                 \/ pc'[r] = "upsert"
                 \/ \E a \in ActiveRows(Key(r)) :
                      a.domain # Dom(r) /\ resp'[r] = AlreadyBound(a.domain)
            /\ (Steps(r) /\ resp'[r].error \in BusinessFailures) =>
                 /\ pc[r] \notin {"upsert", "update"}
                 /\ license' = license
                 /\ activations' = activations
       /\ (license' # license \/ activations' # activations) =>
            \E r \in Requests : pc[r] \in {"upsert", "update"} /\ Steps(r)]_vars

C8_Witness ==
    /\ \E r \in Requests :
          /\ pc[r] = "done"
          /\ Key(r) = "TL-0" /\ Dom(r) = DomainBad
          /\ resp[r] = InvalidDomain
    /\ \E r \in Requests :
          /\ pc[r] = "done"
          /\ resp[r] = AlreadyBound(DomainA)
          /\ license["TL-1"].domain = DomainA

\* C9: every failure response has the body {success: false, error: string},
\* with status 400 for missing fields, 200 for domain-format, invalid-key and
\* already-bound failures, 500 for internal faults and 405 for other methods.
C9_FailureShape ==
    \A r \in Requests :
        (pc[r] = "done" /\ resp[r].success # "true") =>
            /\ resp[r].success = "false"
            /\ resp[r].error # "none"
            /\ resp[r].status =
                 (CASE resp[r].error = "missing_fields" -> 400
                    [] resp[r].error \in {"invalid_domain", "invalid_key", "already_bound"} -> 200
                    [] resp[r].error = "internal" -> 500
                    [] resp[r].error = "method_not_allowed" -> 405
                    [] OTHER -> 0)

\* C10: when an Activate that carries a themeId returns success, the
\* Activation row keyed by its (licenseKey, domain) holds that themeId.
C10_ThemeIdStored ==
    [][\A r \in Requests :
         (pc[r] = "update" /\ Steps(r) /\ resp'[r].success = "true"
          /\ req[r].themeId # NoTheme)
         => \A a \in RowsAt(Key(r), Dom(r))' : a.themeId = req[r].themeId]_vars

\* C11: once a license key is bound to a domain A by a successful Activate
\* (License.isActive with License.domain = A), no later step succeeds for
\* that key with another domain and License.domain stays A.
C11_BindingIsPermanent ==
    [][\A k \in IssuedKeys :
         license[k].isActive =>
            /\ license'[k].domain = license[k].domain
            /\ \A r \in Requests :
                 (Steps(r) /\ Key(r) = k /\ resp'[r].success = "true")
                    => Dom(r) = license[k].domain]_vars

\* C12: in every reachable state, a License row with isActive = true has a
\* domain that is the domain of some Activation row of that key with
\* isActive = true.
C12_LicenseDomainHasActiveRow ==
    \A k \in IssuedKeys :
        license[k].isActive =>
            \E a \in ActiveRows(k) : a.domain = license[k].domain

\* a License rebound by a second, racing request: two active rows, and the
\* License names one of them
C12_Witness ==
    \E k \in IssuedKeys :
        /\ license[k].isActive
        /\ Cardinality(ActiveRows(k)) = 2
        /\ \E a \in ActiveRows(k) : a.domain = license[k].domain
        /\ \A r \in Requests : pc[r] \in {"idle", "done"}

====
